---------------------------- MODULE Spec2Model ----------------------------
(***************************************************************************)
(* VIAME CSV <-> track JSON converter (server/viame_server/serializers/    *)
(* viame.py).                                                              *)
(*                                                                         *)
(* Text is modelled as a sequence of one-character strings, so that        *)
(* str.startswith, "in", re.match, int(), float() and str() are computed   *)
(* character by character.  A Python float is modelled by its value in     *)
(* tenths (12.5 is 125); every numeral of the inputs has at most one       *)
(* fractional digit and no exponent.                                       *)
(***************************************************************************)
EXTENDS Integers, Sequences, FiniteSets, TLC

VARIABLES
    pc,          \* position of the running call
    error,       \* the exception that ended the call and where it was raised
    tracks,      \* load_csv_as_tracks: trackId -> Track (the local dict)
    order,       \* insertion order of the keys of tracks
    consumed,    \* rows the loop of load_csv_as_tracks has folded so far
    nlines,      \* lines read from the file so far (skipped ones included)
    result,      \* value returned by load_csv_as_tracks
    track_json,  \* export_tracks_as_csv: the tracks read from the file
    next_track,  \* index of the next track of tracks.values() to write
    csvFile,     \* rows written to the StringIO so far
    returned,    \* value returned by export_tracks_as_csv
    row,         \* the row given to the decoder
    parsed,      \* what _parse_row returned for row
    decoded,     \* what _parse_row_for_tracks returned for row
    encoded      \* the rows write_track_to_csv wrote for the decoded row

vars == <<pc, error, tracks, order, consumed, nlines, result, track_json,
          next_track, csvFile, returned, row, parsed, decoded, encoded>>

-----------------------------------------------------------------------------
(* Bounds *)

MaxRows == 3
MaxTracks == 2
MaxFeatures == 2

-----------------------------------------------------------------------------
(* Text *)

Digit == {"0", "1", "2", "3", "4", "5", "6", "7", "8", "9"}

DigitVal(c) ==
    CASE c = "0" -> 0 [] c = "1" -> 1 [] c = "2" -> 2 [] c = "3" -> 3
      [] c = "4" -> 4 [] c = "5" -> 5 [] c = "6" -> 6 [] c = "7" -> 7
      [] c = "8" -> 8 [] c = "9" -> 9

DigitChar(d) ==
    CASE d = 0 -> "0" [] d = 1 -> "1" [] d = 2 -> "2" [] d = 3 -> "3"
      [] d = 4 -> "4" [] d = 5 -> "5" [] d = 6 -> "6" [] d = 7 -> "7"
      [] d = 8 -> "8" [] d = 9 -> "9"

\* s[from:] of Python, from counted from 0
Tail0(s, from) == SubSeq(s, from + 1, Len(s))

\* s.startswith(p)
StartsWith(s, p) == Len(s) >= Len(p) /\ SubSeq(s, 1, Len(p)) = p

\* p in s
Contains(s, p) ==
    \E k \in 1..(Len(s) - Len(p) + 1) : SubSeq(s, k, k + Len(p) - 1) = p

IsDigits(s) == \A k \in 1..Len(s) : s[k] \in Digit

RECURSIVE DigitsVal(_)
DigitsVal(s) ==
    IF s = <<>> THEN 0
    ELSE 10 * DigitsVal(SubSeq(s, 1, Len(s) - 1)) + DigitVal(s[Len(s)])

\* length of the longest run of digits s starts with: what [0-9]+ takes
RECURSIVE DigitRun(_)
DigitRun(s) ==
    IF s # <<>> /\ s[1] \in Digit THEN 1 + DigitRun(Tail(s)) ELSE 0

RECURSIVE Strip(_)
Strip(s) ==
    IF s # <<>> /\ s[1] = " " THEN Strip(Tail(s))
    ELSE IF s # <<>> /\ s[Len(s)] = " " THEN Strip(SubSeq(s, 1, Len(s) - 1))
    ELSE s

Unsigned(s) == IF s # <<>> /\ s[1] \in {"+", "-"} THEN Tail(s) ELSE s

Sign(s) == IF s # <<>> /\ s[1] = "-" THEN -1 ELSE 1

IntOf(u, sgn) ==
    IF u # <<>> /\ IsDigits(u) THEN [ok |-> TRUE, v |-> sgn * DigitsVal(u)]
    ELSE [ok |-> FALSE, v |-> 0]

\* int(s): [ok |-> FALSE] stands for ValueError
ParseInt(s) == IntOf(Unsigned(Strip(s)), Sign(Strip(s)))

\* u is n digits and then rest
FloatOf(u, n, rest, sgn) ==
    IF n >= 1 /\ (rest = <<>> \/ rest = <<".">>)
    THEN [ok |-> TRUE, v |-> sgn * 10 * DigitsVal(SubSeq(u, 1, n))]
    ELSE IF Len(rest) = 2 /\ rest[1] = "." /\ rest[2] \in Digit
    THEN [ok |-> TRUE,
          v |-> sgn * (10 * DigitsVal(SubSeq(u, 1, n)) + DigitVal(rest[2]))]
    ELSE [ok |-> FALSE, v |-> 0]

FloatOfText(u, sgn) == FloatOf(u, DigitRun(u), Tail0(u, DigitRun(u)), sgn)

\* float(s), in tenths: digits, then optionally a point and at most one
\* digit; [ok |-> FALSE] stands for ValueError.  The exponents, the
\* underscores and the words inf and nan float() also takes are in no input.
ParseFloat(s) == FloatOfText(Unsigned(Strip(s)), Sign(Strip(s)))

RECURSIVE NatToStr(_)
NatToStr(n) ==
    IF n < 10 THEN <<DigitChar(n)>>
    ELSE NatToStr(n \div 10) \o <<DigitChar(n % 10)>>

\* str(n) of an int
IntToStr(n) == IF n < 0 THEN <<"-">> \o NatToStr(-n) ELSE NatToStr(n)

\* str(x) of a float given in tenths: always with a point and a digit
FloatToStr(x) ==
    LET a == IF x < 0 THEN -x ELSE x
    IN  (IF x < 0 THEN <<"-">> ELSE <<>>)
        \o NatToStr(a \div 10) \o <<".">> \o <<DigitChar(a % 10)>>

-----------------------------------------------------------------------------
(* Literals of the source *)

SP == <<" ">>
L_paren == <<"(">>
L_hash == <<"#">>
L_kp == <<"(", "k", "p", ")">>
L_atr == <<"(", "a", "t", "r", ")">>
L_trk == <<"(", "t", "r", "k", "-", "a", "t", "r", ")">>
L_head == <<"h", "e", "a", "d">>
L_tail == <<"t", "a", "i", "l">>
L_true == <<"t", "r", "u", "e">>
L_false == <<"f", "a", "l", "s", "e">>
L_minus1 == <<"-", "1">>


-----------------------------------------------------------------------------
(* Values: bool, int, float (in tenths) and str share one record shape *)

BoolV(b) == [t |-> "bool", n |-> IF b THEN 1 ELSE 0, s |-> <<>>]
IntV(n) == [t |-> "int", n |-> n, s |-> <<>>]
FloatV(x) == [t |-> "float", n |-> x, s |-> <<>>]
StrV(s) == [t |-> "str", n |-> 0, s |-> s]

\* Optional[...]: None is [some |-> FALSE, v |-> 0]
NoneV == [some |-> FALSE, v |-> 0]
SomeV(x) == [some |-> TRUE, v |-> x]

\* an exception: its type and the function whose code raised it
Raised(type, site) ==
    IF type = "none" THEN [type |-> "none", site |-> "none"]
    ELSE [type |-> type, site |-> site]

NoError == Raised("none", "none")

\* A dict is the sequence of its <<key, value>> items in insertion order
DictKeys(d) == {d[k][1] : k \in 1..Len(d)}

DictGet(d, key) == d[CHOOSE k \in 1..Len(d) : d[k][1] = key][2]

\* d[key] = val
DictSet(d, key, val) ==
    IF key \in DictKeys(d)
    THEN [k \in 1..Len(d) |-> IF d[k][1] = key THEN <<key, val>> ELSE d[k]]
    ELSE Append(d, <<key, val>>)

\* row[i] of Python, i counted from 0
At(r, i) == r[i + 1]

-----------------------------------------------------------------------------
(* Type inference *)

NumberOrText(value, number) ==
    IF number.ok THEN FloatV(number.v) ELSE StrV(value)

_deduceType(value) ==
    IF value = L_true THEN BoolV(TRUE)
    ELSE IF value = L_false THEN BoolV(FALSE)
    ELSE NumberOrText(value, ParseFloat(value))

-----------------------------------------------------------------------------
(* Row decoder *)

NoMatch == [ok |-> FALSE, g1 |-> <<>>, g2 |-> <<>>]

\* r1 is n1 digits and then r2
KpSecond(r1, n1, r2) ==
    IF n1 >= 1 /\ r2 # <<>> /\ r2[1] = " " /\ DigitRun(Tail(r2)) >= 1
    THEN [ok |-> TRUE, g1 |-> SubSeq(r1, 1, n1),
          g2 |-> SubSeq(Tail(r2), 1, DigitRun(Tail(r2)))]
    ELSE NoMatch

KpFirst(r1) == KpSecond(r1, DigitRun(r1), Tail0(r1, DigitRun(r1)))

\* re.match(r"\(kp\) <word> ([0-9]+) ([0-9]+)", s)
MatchKp(s, word) ==
    IF StartsWith(s, L_kp \o SP \o word \o SP)
    THEN KpFirst(Tail0(s, Len(L_kp \o SP \o word \o SP)))
    ELSE NoMatch

\* K: the spaces of r that leave a character on both sides
AttrGroups(r, K) ==
    IF K = {} THEN NoMatch
    ELSE [ok |-> TRUE,
          g1 |-> SubSeq(r, 1, (CHOOSE x \in K : \A y \in K : y <= x) - 1),
          g2 |-> SubSeq(r, (CHOOSE x \in K : \A y \in K : y <= x) + 1,
                        Len(r))]

AttrSplit(r) == AttrGroups(r, {k \in 2..(Len(r) - 1) : r[k] = " "})

\* re.match(r"<tag> (.+) (.+)", s): the first group is greedy, so the
\* groups split at the last space that leaves both of them non-empty
MatchAttr(s, tag) ==
    IF StartsWith(s, tag \o SP) THEN AttrSplit(Tail0(s, Len(tag \o SP)))
    ELSE NoMatch

ScanStepSkipTagsStop(r, i) == IF StartsWith(At(r, i), L_paren) THEN Len(r) ELSE i + 2

\* the next index the confidence-pair scan visits after i
ScanStep(r, i) == i + 2

\* one element [row[i], float(row[i + 1])] and the elements after it
ConsPair(label, score, more) ==
    IF ~score.ok THEN [err |-> "ValueError", pairs |-> <<>>]
    ELSE IF more.err # "none" THEN more
    ELSE [err |-> "none", pairs |-> <<<<label, score.v>>>> \o more.pairs]

\* [[row[i], float(row[i + 1])] for i in range(i, len(row), 2)
\*  if not row[i].startswith("(")]; err is the exception of the first
\* element that raises
RECURSIVE ConfScan(_, _)
ConfScan(r, i) ==
    IF i >= Len(r) THEN [err |-> "none", pairs |-> <<>>]
    ELSE IF StartsWith(At(r, i), L_paren) THEN ConfScan(r, ScanStep(r, i))
    ELSE IF i + 1 >= Len(r) THEN [err |-> "IndexError", pairs |-> <<>>]
    ELSE ConsPair(At(r, i), ParseFloat(At(r, i + 1)),
                  ConfScan(r, ScanStep(r, i)))

TagStartWide(r) == 9

\* start = len(row) - 1 if len(row) % 2 == 0 else len(row) - 2
TagStart(r) == IF Len(r) % 2 = 0 THEN Len(r) - 1 ELSE Len(r) - 2

\* if groups: features[which] = (groups[1], groups[2])
RecordKp(st, which, groups) ==
    IF groups.ok
    THEN [st EXCEPT ![which] = <<StrV(groups.g1), StrV(groups.g2)>>]
    ELSE st

\* the (kp) branch of the tag scan for one field
KpStep(st, f) ==
    IF StartsWith(f, L_kp)
    THEN IF Contains(f, L_head) THEN RecordKp(st, "head", MatchKp(f, L_head))
         ELSE IF Contains(f, L_tail)
         THEN RecordKp(st, "tail", MatchKp(f, L_tail))
         ELSE st
    ELSE st

RecordAttrAlways(d, groups) == DictSet(d, groups.g1, _deduceType(groups.g2))

\* if groups: d[groups[1]] = _deduceType(groups[2])
RecordAttr(d, groups) ==
    IF groups.ok THEN DictSet(d, groups.g1, _deduceType(groups.g2)) ELSE d

\* the (atr) branch
AtrStep(st, f) ==
    IF StartsWith(f, L_atr)
    THEN [st EXCEPT !.attributes = RecordAttr(@, MatchAttr(f, L_atr))]
    ELSE st

\* the (trk-atr) branch
TrkAtrStep(st, f) ==
    IF StartsWith(f, L_trk)
    THEN [st EXCEPT !.track_attributes = RecordAttr(@, MatchAttr(f, L_trk))]
    ELSE st

\* for j in range(j, len(row)): the three ifs of the loop body
RECURSIVE TagScan(_, _, _)
TagScan(r, j, st) ==
    IF j >= Len(r) THEN st
    ELSE TagScan(r, j + 1, TrkAtrStep(AtrStep(KpStep(st, At(r, j)), At(r, j)),
                                      At(r, j)))

NoTags == [head |-> <<>>, tail |-> <<>>, attributes |-> <<>>,
           track_attributes |-> <<>>]

NoParse == [err |-> "none", head |-> <<>>, tail |-> <<>>, attributes |-> <<>>,
            track_attributes |-> <<>>, confidence_pairs |-> <<>>]

ParseResult(conf, st) ==
    IF conf.err # "none" THEN [NoParse EXCEPT !.err = conf.err]
    ELSE [err |-> "none", head |-> st.head, tail |-> st.tail,
          attributes |-> st.attributes,
          track_attributes |-> st.track_attributes,
          confidence_pairs |-> conf.pairs]

_parse_row(r) ==
    ParseResult(ConfScan(r, 9), TagScan(r, TagStart(r), NoTags))

NoRowInfo == [err |-> "none", trackId |-> 0, frame |-> 0, bounds |-> <<>>,
              fish_length |-> 0]

RowInfoOf(trackId, frame, bounds, fish_length) ==
    IF ~trackId.ok \/ ~frame.ok \/ (\E k \in 1..4 : ~bounds[k].ok)
       \/ ~fish_length.ok
    THEN [NoRowInfo EXCEPT !.err = "ValueError"]
    ELSE [err |-> "none", trackId |-> trackId.v, frame |-> frame.v,
          bounds |-> [k \in 1..4 |-> bounds[k].v],
          fish_length |-> fish_length.v]

\* rows have at least 9 fields (spec 4.2)
row_info(r) ==
    RowInfoOf(ParseInt(At(r, 0)), ParseInt(At(r, 2)),
              [k \in 1..4 |-> ParseFloat(At(r, k + 2))],
              ParseFloat(At(r, 8)))

NoFeature == [frame |-> 0, bounds |-> <<>>, head |-> <<>>, tail |-> <<>>,
              fishLength |-> NoneV, attributes |-> <<>>]

NoDecode == [err |-> "none", feature |-> NoFeature, attributes |-> <<>>,
             track_attributes |-> <<>>, confidence_pairs |-> <<>>]

FishLengthKeepAll(x) == SomeV(x)

\* fishLength if fishLength > 0 else None
FishLength(x) == IF x > 0 THEN SomeV(x) ELSE NoneV

\* Feature.attributes is the dict itself, or <<>> for "attributes or None"
DecodeResult(p, info) ==
    IF p.err # "none" THEN [NoDecode EXCEPT !.err = p.err]
    ELSE IF info.err # "none" THEN [NoDecode EXCEPT !.err = info.err]
    ELSE [err |-> "none",
          feature |-> [frame |-> info.frame, bounds |-> info.bounds,
                       head |-> p.head, tail |-> p.tail,
                       fishLength |-> FishLength(info.fish_length),
                       attributes |-> p.attributes],
          attributes |-> p.attributes,
          track_attributes |-> p.track_attributes,
          confidence_pairs |-> p.confidence_pairs]

_parse_row_for_tracks(r) == DecodeResult(_parse_row(r), row_info(r))

-----------------------------------------------------------------------------
(* Row encoder *)

\* str(value) as csv.writer and the f-strings apply it
CellToStr(c) ==
    CASE c.t = "int" -> IntToStr(c.n)
      [] c.t = "float" -> FloatToStr(c.n)
      [] c.t = "str" -> c.s
      [] c.t = "bool" -> IF c.n = 1 THEN <<"T", "r", "u", "e">>
                         ELSE <<"F", "a", "l", "s", "e">>

valueToString(value) ==
    IF value.t = "bool" /\ value.n = 1 THEN L_true
    ELSE IF value.t = "bool" /\ value.n = 0 THEN L_false
    ELSE CellToStr(value)

ScoreColumnFirst(track) == FloatV(track.confidencePairs[1][2])

\* track.confidencePairs[-1][1]
ScoreColumn(track) ==
    FloatV(track.confidencePairs[Len(track.confidencePairs)][2])

\* feature.fishLength or -1
LengthColumn(feature) ==
    IF feature.fishLength.some /\ feature.fishLength.v # 0
    THEN FloatV(feature.fishLength.v)
    ELSE IntV(-1)

RECURSIVE FlattenPairs(_)
FlattenPairs(pairs) ==
    IF pairs = <<>> THEN <<>>
    ELSE <<StrV(pairs[1][1]), FloatV(pairs[1][2])>> \o FlattenPairs(Tail(pairs))

KeypointColumns(feature) ==
    IF feature.head # <<>> /\ feature.tail # <<>>
    THEN <<StrV(L_kp \o SP \o L_head \o SP \o CellToStr(feature.head[1])
                \o SP \o CellToStr(feature.head[2])),
           StrV(L_kp \o SP \o L_tail \o SP \o CellToStr(feature.tail[1])
                \o SP \o CellToStr(feature.tail[2]))>>
    ELSE <<>>

AttrColumns(tag, d) ==
    [k \in 1..Len(d) |->
        StrV(tag \o SP \o d[k][1] \o SP \o valueToString(d[k][2]))]

\* the columns list of one feature; the track has a confidence pair
Columns(track, feature) ==
    <<IntV(track.trackId), StrV(<<>>), IntV(feature.frame)>>
    \o [k \in 1..Len(feature.bounds) |-> FloatV(feature.bounds[k])]
    \o <<ScoreColumn(track), LengthColumn(feature)>>
    \o FlattenPairs(track.confidencePairs)
    \o KeypointColumns(feature)
    \o AttrColumns(L_atr, feature.attributes)
    \o AttrColumns(L_trk, track.attributes)

\* csv_writer.writerow(columns): the text of each column
writerow(columns) == [k \in 1..Len(columns) |-> CellToStr(columns[k])]

\* for feature in track.features[k:], out the rows written before
RECURSIVE WriteLoop(_, _, _)
WriteLoop(track, k, out) ==
    IF k > Len(track.features) THEN [err |-> "none", rows |-> out]
    ELSE IF track.confidencePairs = <<>>
    THEN [err |-> "IndexError", rows |-> out]
    ELSE WriteLoop(track, k + 1,
                   Append(out, writerow(Columns(track, track.features[k]))))

write_track_to_csv_skip(track) ==
    IF track.confidencePairs = <<>> THEN [err |-> "none", rows |-> <<>>]
    ELSE WriteLoop(track, 1, <<>>)

write_track_to_csv(track) == WriteLoop(track, 1, <<>>)

\* Track(begin, end, trackId, features, confidencePairs, attributes)
Track(begin, end, trackId, features, pairs, attributes) ==
    [begin |-> begin, end |-> end, trackId |-> trackId,
     features |-> features, confidencePairs |-> pairs,
     attributes |-> attributes]

-----------------------------------------------------------------------------
(* Rows given to the decoder: a fixed prefix (fields 0-8) and a suffix *)

Prefixes == {
    <<<<"1">>,
      <<>>,
      <<"0">>,
      <<"1", "0", ".", "0">>,
      <<"2", "0", ".", "0">>,
      <<"3", "0", ".", "0">>,
      <<"4", "0", ".", "0">>,
      <<"0", ".", "9">>,
      <<"5", ".", "2">>>>,
    <<<<"1">>,
      <<>>,
      <<"1">>,
      <<"1", "1", ".", "0">>,
      <<"2", "1", ".", "0">>,
      <<"3", "1", ".", "0">>,
      <<"4", "1", ".", "0">>,
      <<"0", ".", "9">>,
      <<"-", "1">>>>,
    <<<<"2">>,
      <<>>,
      <<"7">>,
      <<"1", "0">>,
      <<"2", "0">>,
      <<"3", "0">>,
      <<"4", "0">>,
      <<"0", ".", "9">>,
      <<"1", "2", ".", "5">>>>,
    <<<<"0", "1">>,
      <<>>,
      <<"3">>,
      <<"1", ".", "0">>,
      <<"2", ".", "0">>,
      <<"3", ".", "0">>,
      <<"4", ".", "0">>,
      <<"0", ".", "9">>,
      <<"0">>>>,
    <<<<"2">>,
      <<>>,
      <<"3">>,
      <<"1", ".", "5">>,
      <<"2", ".", "5">>,
      <<"3", ".", "5">>,
      <<"4", ".", "5">>,
      <<"0", ".", "5">>,
      <<"-", "2", ".", "5">>>>,
    <<<<"1">>,
      <<>>,
      <<"+", "3">>,
      <<"1", ".", "0">>,
      <<"2", ".", "0">>,
      <<"3", ".", "0">>,
      <<"4", ".", "0">>,
      <<"0", ".", "9">>,
      <<"5">>>>,
    <<<<"x">>,
      <<>>,
      <<"0">>,
      <<"1", ".", "0">>,
      <<"2", ".", "0">>,
      <<"3", ".", "0">>,
      <<"4", ".", "0">>,
      <<"0", ".", "9">>,
      <<"5", ".", "2">>>>,
    <<<<"1">>,
      <<>>,
      <<"0">>,
      <<"1", ".", "0">>,
      <<"a", "b", "c">>,
      <<"3", ".", "0">>,
      <<"4", ".", "0">>,
      <<"0", ".", "9">>,
      <<"5", ".", "2">>>>}

Suffixes == {
    <<>>,
    <<<<"f", "i", "s", "h">>,
      <<"0", ".", "9">>>>,
    <<<<"f", "i", "s", "h">>,
      <<"0", ".", "9">>,
      <<"s", "h", "a", "r", "k">>,
      <<"0", ".", "2">>>>,
    <<<<"f", "i", "s", "h">>>>,
    <<<<"f", "i", "s", "h">>,
      <<"a", "b", "c">>>>,
    <<<<"f", "i", "s", "h">>,
      <<"0", ".", "9">>,
      <<"(", "k", "p", ")", " ", "h", "e", "a", "d", " ", "1", " ", "2">>,
      <<"(", "k", "p", ")", " ", "t", "a", "i", "l", " ", "3", " ", "4">>>>,
    <<<<"f", "i", "s", "h">>,
      <<"0", ".", "9">>,
      <<"(", "k", "p", ")", " ", "h", "e", "a", "d", " ", "1", " ", "2">>>>,
    <<<<"f", "i", "s", "h">>,
      <<"0", ".", "9">>,
      <<"(", "k", "p", ")", " ", "t", "a", "i", "l", " ", "3", " ", "4">>>>,
    <<<<"f", "i", "s", "h">>,
      <<"0", ".", "9">>,
      <<"(", "a", "t", "r", ")", " ", "a", " ", "t", "r", "u", "e">>>>,
    <<<<"f", "i", "s", "h">>,
      <<"0", ".", "9">>,
      <<"(", "t", "r", "k", "-", "a", "t", "r", ")", " ", "a", "b", " ", "1", ".", "5">>>>,
    <<<<"f", "i", "s", "h">>,
      <<"0", ".", "9">>,
      <<"(", "t", "r", "k", "-", "a", "t", "r", ")", " ", "c", "o", "l", "o", "r", " ", "r", "e", "d">>>>,
    <<<<"f", "i", "s", "h">>,
      <<"0", ".", "9">>,
      <<"(", "k", "p", ")", " ", "h", "e", "a", "d", " ", "x", " ", "y">>>>,
    <<<<"f", "i", "s", "h">>,
      <<"0", ".", "9">>,
      <<"(", "a", "t", "r", ")", " ", "b", "a", "d">>>>,
    <<<<"f", "i", "s", "h">>,
      <<"(", "a", "t", "r", ")", " ", "b", "a", "d">>>>,
    <<<<"(", "a", "t", "r", ")", " ", "a", " ", "b">>,
      <<"x">>,
      <<"f", "i", "s", "h">>,
      <<"0", ".", "9">>>>,
    <<<<"f", "i", "s", "h">>,
      <<"0", ".", "9">>,
      <<"(", "t", "r", "k", "-", "a", "t", "r", ")", " ", "b", "a", "d">>>>,
    <<<<"f", "i", "s", "h">>,
      <<"0", ".", "9">>,
      <<"(", "k", "p", ")", " ", "h", "e", "a", "d", " ", "1", " ", "2">>,
      <<"(", "a", "t", "r", ")", " ", "a", " ", "f", "a", "l", "s", "e">>,
      <<"(", "k", "p", ")", " ", "t", "a", "i", "l", " ", "3", " ", "4">>>>,
    <<<<"f", "i", "s", "h">>,
      <<"0", ".", "9">>,
      <<"(", "a", "t", "r", ")", " ", "a", " ", "1", ".", "5">>,
      <<"(", "t", "r", "k", "-", "a", "t", "r", ")", " ", "k", " ", "v">>>>,
    <<<<"f", "i", "s", "h">>,
      <<"0", ".", "9">>,
      <<"(", "k", "p", ")", " ", "t", "a", "i", "l", " ", "1", " ", "2", " ", "h", "e", "a", "d">>>>,
    <<<<"(", "k", "p", ")", " ", "h", "e", "a", "d", " ", "1", " ", "2">>,
      <<"(", "k", "p", ")", " ", "t", "a", "i", "l", " ", "3", " ", "4">>>>,
    <<<<"f", "i", "s", "h">>,
      <<"0", ".", "9">>,
      <<"(", "k", "p", ")", " ", "t", "a", "i", "l", " ", "3">>,
      <<"(", "k", "p", ")", " ", "h", "e", "a", "d", " ", "1", " ", "2">>>>}

DecodeRows == {p \o x : p \in Prefixes, x \in Suffixes}

-----------------------------------------------------------------------------
(* The decoder applied to one row, then the encoder to what it decoded *)

NoEncode == [err |-> "none", rows |-> <<>>]

DecodeInit ==
    /\ pc = "row"
    /\ row \in DecodeRows
    /\ parsed = NoParse
    /\ decoded = NoDecode
    /\ encoded = NoEncode
    /\ error = NoError
    /\ tracks = <<>> /\ order = <<>> /\ consumed = <<>> /\ nlines = 0
    /\ result = <<>>
    /\ track_json = <<>> /\ next_track = 1 /\ csvFile = <<>>
    /\ returned = NoneV

ParseRow ==
    /\ pc = "row"
    /\ parsed' = _parse_row(row)
    /\ error' = Raised(parsed'.err, "_parse_row")
    /\ pc' = "parsed"
    /\ UNCHANGED <<tracks, order, consumed, nlines, result, track_json,
                   next_track, csvFile, returned, row, decoded, encoded>>

ParseRowForTracks ==
    /\ pc = "parsed"
    /\ decoded' = _parse_row_for_tracks(row)
    /\ error' = Raised(decoded'.err, "_parse_row_for_tracks")
    /\ pc' = IF decoded'.err = "none" THEN "decoded" ELSE "failed"
    /\ UNCHANGED <<tracks, order, consumed, nlines, result, track_json,
                   next_track, csvFile, returned, row, parsed, encoded>>

\* the track of the decoded row alone, written back
EncodeRow ==
    /\ pc = "decoded"
    /\ encoded' = write_track_to_csv(
                      Track(decoded.feature.frame, decoded.feature.frame,
                            row_info(row).trackId, <<decoded.feature>>,
                            decoded.confidence_pairs,
                            decoded.track_attributes))
    /\ error' = Raised(encoded'.err, "write_track_to_csv")
    /\ pc' = IF encoded'.err = "none" THEN "encoded" ELSE "failed"
    /\ UNCHANGED <<tracks, order, consumed, nlines, result, track_json,
                   next_track, csvFile, returned, row, parsed, decoded>>

DecodeNext == ParseRow \/ ParseRowForTracks \/ EncodeRow

SpecDecode == DecodeInit /\ [][DecodeNext]_vars


-----------------------------------------------------------------------------
(* Track aggregator: load_csv_as_tracks *)

Min(a, b) == IF a <= b THEN a ELSE b
Max(a, b) == IF a >= b THEN a ELSE b

\* row for row in rows if (not row.startswith("#") and row): a line is the
\* list of its fields, the empty line the empty list
Kept(line) == line # <<>> /\ ~StartsWith(line[1], L_hash)

UpdateBeginLast(frame, begin) == frame

\* min(frame, track.begin)
UpdateBegin(frame, begin) == Min(frame, begin)

\* max(track.end, frame)
UpdateEnd(end, frame) == Max(end, frame)

AppendFeatureFront(features, feature) == <<feature>> \o features

\* track.features.append(feature)
AppendFeature(features, feature) == Append(features, feature)

SetPairsAccumulate(old, confidence_pairs) == old \o confidence_pairs

\* track.confidencePairs = confidence_pairs
SetPairs(old, confidence_pairs) == confidence_pairs

\* for (key, val) in track_attributes: track.attributes[key] = val
\* iterating the dict yields its keys; a key of two characters unpacks into
\* them, any other key raises ValueError
RECURSIVE MergeLoop(_, _, _)
MergeLoop(attributes, track_attributes, k) ==
    IF k > Len(track_attributes)
    THEN [err |-> "none", attributes |-> attributes]
    ELSE LET name == track_attributes[k][1]
         IN  IF Len(name) # 2
             THEN [err |-> "ValueError", attributes |-> attributes]
             ELSE MergeLoop(DictSet(attributes, <<name[1]>>,
                                    StrV(<<name[2]>>)),
                            track_attributes, k + 1)

\* tracks[trackId], made by Track(frame, frame, trackId) when missing
TrackOf(tr, trackId, frame) ==
    IF trackId \in DOMAIN tr THEN tr[trackId]
    ELSE Track(frame, frame, trackId, <<>>, <<>>, <<>>)

\* lines 150-153 on the track of the row
Updated(track, frame, d) ==
    [track EXCEPT !.begin = UpdateBegin(frame, @),
                  !.end = UpdateEnd(@, frame),
                  !.features = AppendFeature(@, d.feature),
                  !.confidencePairs = SetPairs(@, d.confidence_pairs)]

\* the mapping after the merge loop m ran on the updated track
Stored(tr, ord, trackId, track, m) ==
    [err |-> m.err, folded |-> TRUE,
     tracks |-> (trackId :> [track EXCEPT !.attributes = m.attributes]) @@ tr,
     order |-> IF trackId \in DOMAIN tr THEN ord ELSE Append(ord, trackId)]

FoldDecoded(tr, ord, d, info) ==
    IF d.err # "none"
    THEN [err |-> d.err, folded |-> FALSE, tracks |-> tr, order |-> ord]
    ELSE Stored(tr, ord, info.trackId,
                Updated(TrackOf(tr, info.trackId, info.frame), info.frame, d),
                MergeLoop(TrackOf(tr, info.trackId, info.frame).attributes,
                          d.track_attributes, 1))

\* the body of the loop over the rows, for one row
Fold(tr, ord, r) == FoldDecoded(tr, ord, _parse_row_for_tracks(r), row_info(r))

LoadLines == {
    <<>>,
    <<<<"#", "c">>>>,
    <<<<"1">>,
      <<>>,
      <<"3">>,
      <<"1", ".", "0">>,
      <<"2", ".", "0">>,
      <<"3", ".", "0">>,
      <<"4", ".", "0">>,
      <<"0", ".", "9">>,
      <<"5", ".", "2">>,
      <<"f", "i", "s", "h">>,
      <<"0", ".", "9">>>>,
    <<<<"1">>,
      <<>>,
      <<"7">>,
      <<"1", ".", "0">>,
      <<"2", ".", "0">>,
      <<"3", ".", "0">>,
      <<"4", ".", "0">>,
      <<"0", ".", "9">>,
      <<"-", "1">>,
      <<"f", "i", "s", "h">>,
      <<"0", ".", "5">>,
      <<"s", "h", "a", "r", "k">>,
      <<"0", ".", "2">>>>,
    <<<<"1">>,
      <<>>,
      <<"0">>,
      <<"1", ".", "0">>,
      <<"2", ".", "0">>,
      <<"3", ".", "0">>,
      <<"4", ".", "0">>,
      <<"0", ".", "9">>,
      <<"5", ".", "2">>>>,
    <<<<"1">>,
      <<>>,
      <<"7">>,
      <<"1", ".", "0">>,
      <<"2", ".", "0">>,
      <<"3", ".", "0">>,
      <<"4", ".", "0">>,
      <<"0", ".", "9">>,
      <<"5", ".", "2">>,
      <<"f", "i", "s", "h">>,
      <<"0", ".", "9">>,
      <<"(", "t", "r", "k", "-", "a", "t", "r", ")", " ", "a", "b", " ", "1", ".", "5">>>>,
    <<<<"1">>,
      <<>>,
      <<"3">>,
      <<"1", ".", "0">>,
      <<"2", ".", "0">>,
      <<"3", ".", "0">>,
      <<"4", ".", "0">>,
      <<"0", ".", "9">>,
      <<"5", ".", "2">>,
      <<"f", "i", "s", "h">>,
      <<"0", ".", "9">>,
      <<"(", "t", "r", "k", "-", "a", "t", "r", ")", " ", "c", "o", "l", "o", "r", " ", "r", "e", "d">>>>,
    <<<<"1">>,
      <<>>,
      <<"0">>,
      <<"1", ".", "0">>,
      <<"2", ".", "0">>,
      <<"3", ".", "0">>,
      <<"4", ".", "0">>,
      <<"0", ".", "9">>,
      <<"5", ".", "2">>,
      <<"f", "i", "s", "h">>,
      <<"0", ".", "9">>,
      <<"(", "a", "t", "r", ")", " ", "a", " ", "t", "r", "u", "e">>,
      <<"(", "t", "r", "k", "-", "a", "t", "r", ")", " ", "b", "a", "d">>>>,
    <<<<"1">>,
      <<>>,
      <<"3">>,
      <<"1", ".", "0">>,
      <<"2", ".", "0">>,
      <<"3", ".", "0">>,
      <<"4", ".", "0">>,
      <<"0", ".", "9">>,
      <<"5", ".", "2">>,
      <<"f", "i", "s", "h">>,
      <<"0", ".", "2">>,
      <<"(", "t", "r", "k", "-", "a", "t", "r", ")", " ", "a", "b", " ", "t", "r", "u", "e">>>>,
    <<<<"2">>,
      <<>>,
      <<"3">>,
      <<"1", ".", "0">>,
      <<"2", ".", "0">>,
      <<"3", ".", "0">>,
      <<"4", ".", "0">>,
      <<"0", ".", "9">>,
      <<"5", ".", "2">>,
      <<"f", "i", "s", "h">>,
      <<"0", ".", "9">>>>,
    <<<<"2">>,
      <<>>,
      <<"0">>,
      <<"1", ".", "0">>,
      <<"2", ".", "0">>,
      <<"3", ".", "0">>,
      <<"4", ".", "0">>,
      <<"0", ".", "9">>,
      <<"-", "1">>,
      <<"s", "h", "a", "r", "k">>,
      <<"0", ".", "2">>,
      <<"(", "k", "p", ")", " ", "h", "e", "a", "d", " ", "1", " ", "2">>,
      <<"(", "k", "p", ")", " ", "t", "a", "i", "l", " ", "3", " ", "4">>>>,
    <<<<"0", "1">>,
      <<>>,
      <<"1">>,
      <<"1", ".", "0">>,
      <<"2", ".", "0">>,
      <<"3", ".", "0">>,
      <<"4", ".", "0">>,
      <<"0", ".", "9">>,
      <<"5", ".", "2">>,
      <<"f", "i", "s", "h">>,
      <<"0", ".", "9">>>>,
    <<<<"1">>,
      <<>>,
      <<"3">>,
      <<"1", ".", "0">>,
      <<"2", ".", "0">>,
      <<"3", ".", "0">>,
      <<"4", ".", "0">>,
      <<"0", ".", "9">>,
      <<"5", ".", "2">>,
      <<"f", "i", "s", "h">>>>,
    <<<<"x">>,
      <<>>,
      <<"3">>,
      <<"1", ".", "0">>,
      <<"2", ".", "0">>,
      <<"3", ".", "0">>,
      <<"4", ".", "0">>,
      <<"0", ".", "9">>,
      <<"5", ".", "2">>,
      <<"f", "i", "s", "h">>,
      <<"0", ".", "9">>>>}

LoadInit ==
    /\ pc = "loading"
    /\ error = NoError
    /\ tracks = <<>>
    /\ order = <<>>
    /\ consumed = <<>>
    /\ nlines = 0
    /\ result = <<>>
    /\ track_json = <<>> /\ next_track = 1 /\ csvFile = <<>>
    /\ returned = NoneV
    /\ row = <<>> /\ parsed = NoParse /\ decoded = NoDecode
    /\ encoded = NoEncode

\* a blank line or a line starting with # never reaches the csv reader
SkipLine(line) ==
    /\ pc = "loading"
    /\ nlines < MaxRows
    /\ ~Kept(line)
    /\ nlines' = nlines + 1
    /\ UNCHANGED <<pc, error, tracks, order, consumed, result, track_json,
                   next_track, csvFile, returned, row, parsed, decoded,
                   encoded>>

\* one iteration of "for row in reader"
LoadRow(line) ==
    /\ pc = "loading"
    /\ nlines < MaxRows
    /\ Kept(line)
    /\ \E f \in {Fold(tracks, order, line)} :
           /\ tracks' = f.tracks
           /\ order' = f.order
           /\ consumed' = IF f.folded THEN Append(consumed, line)
                          ELSE consumed
           /\ error' = Raised(f.err, IF f.folded THEN "load_csv_as_tracks"
                                      ELSE "_parse_row_for_tracks")
           /\ pc' = IF f.err = "none" THEN "loading" ELSE "failed"
    /\ nlines' = nlines + 1
    /\ UNCHANGED <<result, track_json, next_track, csvFile, returned, row,
                   parsed, decoded, encoded>>

\* return {trackId: track.asdict() for trackId, track in tracks.items()}
ReturnTracks ==
    /\ pc = "loading"
    /\ result' = [k \in 1..Len(order) |-> tracks[order[k]]]
    /\ pc' = "loaded"
    /\ UNCHANGED <<error, tracks, order, consumed, nlines, track_json,
                   next_track, csvFile, returned, row, parsed, decoded,
                   encoded>>

LoadNext ==
    \/ \E line \in LoadLines : SkipLine(line)
    \/ \E line \in LoadLines : LoadRow(line)
    \/ ReturnTracks

SpecLoad == LoadInit /\ [][LoadNext]_vars

-----------------------------------------------------------------------------
(* Row encoder driver: export_tracks_as_csv *)

\* the Features of the exported JSON
ExportFeatures == {
    [frame |-> 0, bounds |-> <<10, 20, 30, 40>>, head |-> <<>>,
     tail |-> <<>>, fishLength |-> SomeV(52), attributes |-> <<>>],
    [frame |-> 1, bounds |-> <<15, 25, 35, 45>>,
     head |-> <<FloatV(10), FloatV(20)>>, tail |-> <<FloatV(30), FloatV(40)>>,
     fishLength |-> NoneV,
     attributes |-> <<<<<<"a">>, BoolV(TRUE)>>>>]}

\* confidencePairs and attributes of the exported tracks
ExportKinds == {
    [pairs |-> <<>>, attributes |-> <<>>],
    [pairs |-> <<<<<<"f">>, 9>>>>, attributes |-> <<>>],
    [pairs |-> <<<<<<"f">>, 9>>, <<<<"s">>, 2>>>>,
     attributes |-> <<<<<<"k">>, FloatV(15)>>>>]}

SeqsUpTo(S, n) == UNION {[1..k -> S] : k \in 0..n}

FrameOf(features, dflt) ==
    IF features = <<>> THEN dflt ELSE features[1].frame

\* the tracks a JSON file can hold, the one at position i with trackId i
JsonInputs ==
    {[i \in 1..Len(bodies) |->
         Track(FrameOf(bodies[i][1], 0),
               FrameOf(bodies[i][1], 0) + Len(bodies[i][1]),
               i, bodies[i][1], bodies[i][2].pairs, bodies[i][2].attributes)] :
     bodies \in SeqsUpTo(SeqsUpTo(ExportFeatures, MaxFeatures) \X ExportKinds,
                         MaxTracks)}

ExportInit ==
    /\ pc = "export"
    /\ error = NoError
    /\ track_json \in JsonInputs
    /\ next_track = 1
    /\ csvFile = <<>>
    /\ returned = NoneV
    /\ tracks = <<>> /\ order = <<>> /\ consumed = <<>> /\ nlines = 0
    /\ result = <<>>
    /\ row = <<>> /\ parsed = NoParse /\ decoded = NoDecode
    /\ encoded = NoEncode

\* one iteration of "for track in tracks.values()"
WriteTrack ==
    /\ pc = "export"
    /\ next_track <= Len(track_json)
    /\ \E w \in {write_track_to_csv(track_json[next_track])} :
           /\ csvFile' = csvFile \o w.rows
           /\ error' = Raised(w.err, "write_track_to_csv")
           /\ pc' = IF w.err = "none" THEN "export" ELSE "failed"
    /\ next_track' = next_track + 1
    /\ UNCHANGED <<tracks, order, consumed, nlines, result, track_json,
                   returned, row, parsed, decoded, encoded>>

\* return csvFile.getvalue()
ReturnCsv ==
    /\ pc = "export"
    /\ next_track > Len(track_json)
    /\ returned' = SomeV(csvFile)
    /\ pc' = "done"
    /\ UNCHANGED <<error, tracks, order, consumed, nlines, result, track_json,
                   next_track, csvFile, row, parsed, decoded, encoded>>

ExportNext == WriteTrack \/ ReturnCsv

SpecExport == ExportInit /\ [][ExportNext]_vars


-----------------------------------------------------------------------------
(* Properties of load_csv_as_tracks, checked under SpecLoad *)

FramesOf(t) == {t.features[k].frame : k \in 1..Len(t.features)}

\* the consumed rows naming track id, in arrival order
RowsOf(id) ==
    SelectSeq(consumed, LAMBDA r : ParseInt(At(r, 0)).v = id)

\* C1: after every consumed row, every track of the mapping has a feature,
\* its begin is the least and its end the greatest frame of its features
\* (so begin <= end; a track of one row has begin = end = that row's frame),
\* whatever the order of the frames
C1_BeginEndAreMinMax ==
    \A id \in DOMAIN tracks :
        LET t == tracks[id]
        IN  /\ t.features # <<>>
            /\ t.begin \in FramesOf(t)
            /\ t.end \in FramesOf(t)
            /\ \A f \in FramesOf(t) : t.begin <= f /\ f <= t.end
            /\ t.begin <= t.end

\* a track of three rows whose frames went down and then up again
C1_Witness ==
    \E id \in DOMAIN tracks :
        LET fs == tracks[id].features
        IN  /\ Len(fs) = 3
            /\ fs[1].frame > fs[2].frame
            /\ fs[2].frame < fs[3].frame
            /\ fs[3].frame < fs[1].frame

\* the (name, value) items of the (trk-atr) tags decoded from row r
TrackAttrsOf(r) == _parse_row(r).track_attributes

\* C2: every name carried by a (trk-atr) tag decoded from a row of a track
\* is a key of that track's attributes, with the typed value of the last
\* such row, and the merge never raises
C2_MergeByName ==
    /\ error # Raised("ValueError", "load_csv_as_tracks")
    /\ \A id \in DOMAIN tracks :
         \A k \in 1..Len(RowsOf(id)) :
           \A name \in DictKeys(TrackAttrsOf(RowsOf(id)[k])) :
             LET last == CHOOSE j \in 1..Len(RowsOf(id)) :
                           /\ name \in DictKeys(TrackAttrsOf(RowsOf(id)[j]))
                           /\ \A i \in (j + 1)..Len(RowsOf(id)) :
                                name \notin
                                    DictKeys(TrackAttrsOf(RowsOf(id)[i]))
             IN  /\ name \in DictKeys(tracks[id].attributes)
                 /\ DictGet(tracks[id].attributes, name)
                      = DictGet(TrackAttrsOf(RowsOf(id)[last]), name)

\* C3: the confidencePairs of every track are exactly the pairs decoded
\* from the last consumed row naming it, empty when that row has none;
\* rows naming other tracks leave them alone
C3_LastRowWins ==
    \A id \in DOMAIN tracks :
        /\ RowsOf(id) # <<>>
        /\ tracks[id].confidencePairs
             = _parse_row(RowsOf(id)[Len(RowsOf(id))]).confidence_pairs

\* a track whose earlier row had other, non-empty pairs, with a row of
\* another track consumed after its last row
C3_Witness ==
    \E id \in DOMAIN tracks :
        /\ Len(RowsOf(id)) = 2
        /\ _parse_row(RowsOf(id)[1]).confidence_pairs # <<>>
        /\ tracks[id].confidencePairs # <<>>
        /\ _parse_row(RowsOf(id)[1]).confidence_pairs
             # tracks[id].confidencePairs
        /\ Len(consumed) = 3
        /\ ParseInt(At(consumed[3], 0)).v # id

RECURSIVE FeatureCount(_)
FeatureCount(ord) ==
    IF ord = <<>> THEN 0
    ELSE Len(tracks[ord[1]].features) + FeatureCount(Tail(ord))

\* C4: the tracks are those the consumed rows name, the features of each
\* are the Features of its rows in arrival order, one per row, and the
\* feature counts add up to the number of consumed rows
C4_OneFeaturePerRow ==
    /\ DOMAIN tracks = {ParseInt(At(consumed[k], 0)).v :
                           k \in 1..Len(consumed)}
    /\ {order[k] : k \in 1..Len(order)} = DOMAIN tracks
    /\ Len(order) = Cardinality(DOMAIN tracks)
    /\ FeatureCount(order) = Len(consumed)
    /\ \A id \in DOMAIN tracks :
         tracks[id].features
           = [k \in 1..Len(RowsOf(id)) |->
                 _parse_row_for_tracks(RowsOf(id)[k]).feature]

\* three rows of two tracks, the rows of one of them apart, with two
\* different features
C4_Witness ==
    /\ Len(consumed) = 3
    /\ Cardinality(DOMAIN tracks) = 2
    /\ \E id \in DOMAIN tracks :
         /\ Len(tracks[id].features) = 2
         /\ tracks[id].features[1] # tracks[id].features[2]
         /\ ParseInt(At(consumed[2], 0)).v # id


-----------------------------------------------------------------------------
(* Properties of export_tracks_as_csv, checked under SpecExport *)

\* C5 as stated: a track with no confidence pair, whatever its number of
\* features, makes the call fail and return nothing
C5_EmptyPairsAlwaysFail ==
    (\E i \in 1..Len(track_json) : track_json[i].confidencePairs = <<>>)
        => pc # "done" /\ returned = NoneV

NeedsScore(t) == t.confidencePairs = <<>> /\ t.features # <<>>

\* C5, amended: a track with no confidence pair and at least one feature
\* makes the call raise IndexError when it is written, and the call returns
\* nothing, not even the rows of the tracks written before; without such a
\* track the call does not fail
C5_EmptyPairsWithFeaturesFail ==
    /\ (\E i \in 1..Len(track_json) : NeedsScore(track_json[i]))
         => pc # "done" /\ returned = NoneV
    /\ (\E i \in 1..(next_track - 1) : NeedsScore(track_json[i]))
         => /\ pc = "failed"
            /\ error = Raised("IndexError", "write_track_to_csv")
    /\ pc = "failed"
         => /\ returned = NoneV
            /\ NeedsScore(track_json[next_track - 1])

\* the second track, of two features, fails after the first wrote its rows
C5_Witness ==
    /\ pc = "failed"
    /\ next_track = 3
    /\ csvFile # <<>>
    /\ returned = NoneV
    /\ Len(track_json[2].features) = 2
    /\ track_json[2].confidencePairs = <<>>

RECURSIVE RowsBefore(_)
RowsBefore(i) ==
    IF i <= 1 THEN 0
    ELSE RowsBefore(i - 1) + Len(track_json[i - 1].features)

\* C6: a call that returns, returns one row per Feature in track-then-
\* feature order, and the first nine fields of the row of a Feature are
\* trackId, "", frame, the four bounds, the score of the track's last
\* confidence pair and the fishLength, -1 when absent
C6_OneRowPerFeature ==
    pc = "done" =>
        /\ returned.some
        /\ Len(returned.v) = RowsBefore(Len(track_json) + 1)
        /\ \A i \in 1..Len(track_json) :
             \A k \in 1..Len(track_json[i].features) :
               LET t == track_json[i]
                   f == t.features[k]
                   r == returned.v[RowsBefore(i) + k]
               IN  /\ Len(r) >= 9
                   /\ r[1] = IntToStr(t.trackId)
                   /\ r[2] = <<>>
                   /\ r[3] = IntToStr(f.frame)
                   /\ \A b \in 1..4 : r[3 + b] = FloatToStr(f.bounds[b])
                   /\ r[8] = FloatToStr(
                                t.confidencePairs[Len(t.confidencePairs)][2])
                   /\ r[9] = IF f.fishLength.some
                             THEN FloatToStr(f.fishLength.v)
                             ELSE L_minus1

\* two tracks of two features each, one with two pairs of different scores
C6_Witness ==
    /\ pc = "done"
    /\ Len(track_json) = 2
    /\ Len(returned.v) = 4
    /\ Len(track_json[1].features) = 2
    /\ track_json[1].features[1] # track_json[1].features[2]
    /\ Len(track_json[1].confidencePairs) = 2
    /\ track_json[1].confidencePairs[1][2] # track_json[1].confidencePairs[2][2]

-----------------------------------------------------------------------------
(* Properties of the row decoder, checked under SpecDecode *)

FixedFields == {0, 2, 3, 4, 5, 6, 8}

\* the row was decoded into a Feature
Decoded == pc \in {"decoded", "encoded"}
           \/ (pc = "failed" /\ error.site = "write_track_to_csv")

\* C7 as stated: the fixed-position fields come back byte for byte
C7_RoundTripBytes ==
    (pc = "encoded" /\ Len(decoded.confidence_pairs) = 1)
        => \A k \in FixedFields : At(encoded.rows[1], k) = At(row, k)

\* a numeral written the way str() prints an int
CanonInt(s) ==
    LET u == IF s # <<>> /\ s[1] = "-" THEN Tail(s) ELSE s
    IN  /\ u # <<>>
        /\ IsDigits(u)
        /\ (u[1] = "0" => s = <<"0">>)

\* a numeral written the way str() prints a float of one fractional digit
CanonFloat(s) ==
    LET u == IF s # <<>> /\ s[1] = "-" THEN Tail(s) ELSE s
    IN  /\ Len(u) >= 3
        /\ u[Len(u) - 1] = "."
        /\ u[Len(u)] \in Digit
        /\ IsDigits(SubSeq(u, 1, Len(u) - 2))
        /\ (u[1] = "0" => Len(u) = 3)
        /\ (u = <<"0", ".", "0">> => s = u)

CanonField(k, s) ==
    IF k \in {0, 2} THEN CanonInt(s)
    ELSE IF k = 8 THEN (CanonFloat(s) /\ s[1] # "-"
                        /\ s # <<"0", ".", "0">>) \/ s = L_minus1
    ELSE CanonFloat(s)

FieldValue(k, s) == IF k \in {0, 2} THEN ParseInt(s).v ELSE ParseFloat(s).v

\* C7, amended: a fixed-position field written canonically (an int as str()
\* prints it, a bound as str() prints a float, the length as a positive
\* float printed that way or as -1) comes back byte for byte; any other
\* comes back as the canonical text of the same number, except that a
\* length <= 0 comes back as -1
C7_RoundTripCanonical ==
    (pc = "encoded" /\ Len(decoded.confidence_pairs) = 1)
        => \A k \in FixedFields :
             LET a == At(row, k)
                 b == At(encoded.rows[1], k)
             IN  /\ CanonField(k, a) => b = a
                 /\ CanonField(k, b)
                 /\ IF k = 8 /\ ParseFloat(a).v <= 0 THEN b = L_minus1
                    ELSE FieldValue(k, b) = FieldValue(k, a)

\* a row of canonical fields with length -1, and one with a positive length
C7_Witness ==
    /\ pc = "encoded"
    /\ Len(decoded.confidence_pairs) = 1
    /\ \A k \in FixedFields : CanonField(k, At(row, k))
    /\ At(row, 8) = L_minus1
    /\ encoded.rows[1][9] = L_minus1

\* C8 as stated: a Feature has a head exactly when it has a tail
C8_HeadIffTail ==
    Decoded => (decoded.feature.head # <<>> <=> decoded.feature.tail # <<>>)

\* the indices of the tag-scan window: the last field of a row of even
\* length, the last two of a row of odd length
Window(r) ==
    IF Len(r) % 2 = 0 THEN {Len(r) - 1} ELSE {Len(r) - 2, Len(r) - 1}

HeadTag(f) == MatchKp(f, L_head).ok

TailTag(f) == MatchKp(f, L_tail).ok /\ ~Contains(f, L_head)

\* C8, amended: a Feature has a head exactly when a field of the window
\* matches "(kp) head <int> <int>", and a tail exactly when a field of the
\* window without "head" in it matches "(kp) tail <int> <int>"; each is
\* recorded without the other
C8_HeadTailIndependent ==
    Decoded =>
        /\ decoded.feature.head # <<>>
             <=> \E j \in Window(row) : HeadTag(At(row, j))
        /\ decoded.feature.tail # <<>>
             <=> \E j \in Window(row) : TailTag(At(row, j))

\* a Feature with a head and no tail
C8_Witness ==
    /\ Decoded
    /\ decoded.feature.head # <<>>
    /\ decoded.feature.tail = <<>>

\* a field with a recognized prefix that fails the pattern of its prefix
Mismatch(f) ==
    \/ StartsWith(f, L_kp) /\ ~MatchKp(f, L_head).ok /\ ~MatchKp(f, L_tail).ok
    \/ StartsWith(f, L_atr) /\ ~MatchAttr(f, L_atr).ok
    \/ StartsWith(f, L_trk) /\ ~MatchAttr(f, L_trk).ok

\* a field of the window the tag scan can record something for
GoodTag(f) ==
    \/ HeadTag(f) \/ TailTag(f)
    \/ MatchAttr(f, L_atr).ok
    \/ MatchAttr(f, L_trk).ok

ValidFixed(r) ==
    /\ ParseInt(At(r, 0)).ok /\ ParseInt(At(r, 2)).ok
    /\ \A k \in {3, 4, 5, 6, 8} : ParseFloat(At(r, k)).ok

\* the indices the confidence-pair scan visits
Visited(r) == {i \in 9..(Len(r) - 1) : (i - 9) % 2 = 0}

Labels(r) == {i \in Visited(r) : ~StartsWith(At(r, i), L_paren)}

\* every label the scan meets is followed by a numeric field
WellFormedPairs(r) ==
    \A i \in Labels(r) : i + 1 < Len(r) /\ ParseFloat(At(r, i + 1)).ok

Recorded(p) ==
    Len(p.attributes) + Len(p.track_attributes)
    + (IF p.head # <<>> THEN 1 ELSE 0) + (IF p.tail # <<>> THEN 1 ELSE 0)

\* C9 as stated: with valid fixed-position fields, a mismatching suffix
\* field never makes the decoding of the row fail
C9_MismatchNeverFails ==
    (pc # "row" /\ ValidFixed(row)
     /\ \E j \in 9..(Len(row) - 1) : Mismatch(At(row, j)))
        => /\ parsed.err = "none"
           /\ pc # "parsed" => Decoded

\* C9, amended: with valid fixed-position fields and every label of the
\* confidence-pair scan followed by a numeric field, a mismatching field of
\* the tag-scan window does not make the decoding fail: nothing is recorded
\* for it and the row yields its Feature
C9_MismatchDropped ==
    (pc # "row" /\ ValidFixed(row) /\ WellFormedPairs(row)
     /\ \E j \in Window(row) : Mismatch(At(row, j)))
        => /\ parsed.err = "none"
           /\ Recorded(parsed)
                <= Cardinality({j \in Window(row) : GoodTag(At(row, j))})
           /\ pc # "parsed"
                => /\ Decoded
                   /\ decoded.feature.frame = ParseInt(At(row, 2)).v
                   /\ decoded.feature.head = parsed.head
                   /\ decoded.feature.tail = parsed.tail
                   /\ decoded.feature.attributes = parsed.attributes

\* a decoded row whose window is one mismatching field
C9_Witness ==
    /\ pc = "decoded"
    /\ ValidFixed(row)
    /\ \A j \in Window(row) : Mismatch(At(row, j))
    /\ Recorded(parsed) = 0
    /\ decoded.confidence_pairs # <<>>

\* the k-th label of the row, in increasing order
NthLabel(r, k) ==
    CHOOSE i \in Labels(r) : Cardinality({j \in Labels(r) : j < i}) = k - 1

ExpectedPairs(r) ==
    [k \in 1..Cardinality(Labels(r)) |->
        <<At(r, NthLabel(r, k)), ParseFloat(At(r, NthLabel(r, k) + 1)).v>>]

\* C10 as stated: the scan returns one pair per label, in order, for every
\* row of at least 9 fields
C10_ScanDefined ==
    pc # "row" => /\ parsed.err = "none"
                  /\ parsed.confidence_pairs = ExpectedPairs(row)

\* C10, amended: when every label is followed by a numeric field, the scan
\* returns one pair (label, score) per label of the visited indices
\* 9, 11, 13, ... in increasing order, whatever comes before a label;
\* otherwise (a label that is the last field, which takes a row of even
\* length, or a label followed by a field that is no number) _parse_row
\* raises and returns nothing
C10_ScanWhenWellFormed ==
    pc # "row" =>
        IF WellFormedPairs(row)
        THEN /\ parsed.err = "none"
             /\ parsed.confidence_pairs = ExpectedPairs(row)
        ELSE /\ parsed.err \in {"IndexError", "ValueError"}
             /\ parsed.err = "IndexError"
                  <=> \E i \in Labels(row) :
                        /\ i + 1 >= Len(row)
                        /\ \A j \in Labels(row) :
                             j < i => ParseFloat(At(row, j + 1)).ok

\* a row with a label after a visited tag field, and a row of even length
\* whose last field is a tag
C10_Witness ==
    /\ pc = "parsed"
    /\ parsed.err = "none"
    /\ parsed.confidence_pairs # <<>>
    /\ \E i \in Visited(row), j \in Labels(row) : i < j /\ i \notin Labels(row)

=============================================================================
